---- MODULE Spec2Model ----
(***************************************************************************)
(* A model of openat2-rs (src/src/lib.rs): the OpenHow request structure   *)
(* and its truncate_flags_mode normalisation, the openat2 / openat2_cstr   *)
(* syscall wrappers, the has_openat2 and supports_open_how probes, and the *)
(* lock-free cache behind has_openat2_cached.                              *)
(*                                                                         *)
(* 64-bit and 32-bit words are modelled as the set of their set bit        *)
(* positions (bit k stands for 2^k): `&` is \cap, `|` is \cup, and         *)
(* `x & M == M` is M \subseteq x.  The libc constants are those of         *)
(* x86_64-unknown-linux-gnu.                                               *)
(***************************************************************************)
EXTENDS Integers, FiniteSets, Sequences, TLC

VARIABLES
    kernel,       \* the kernel the process runs on (fixed for its lifetime)
    HAS_OPENAT2,  \* the static AtomicU8 of has_openat2_cached
    fds,          \* the process's open file descriptors
    held,         \* descriptors handed to callers by openat2 and not yet closed
    pc,           \* each thread's position inside its current call
    op,           \* each thread's current (or last completed) function
    args,         \* the arguments of that call
    sys,          \* the arguments of the syscall issued by that call
    nsys,         \* the number of syscalls issued by that call
    sysret,       \* the return value of the thread's last syscall
    errno,        \* the thread's errno
    ret,          \* the value returned by the thread's last completed call
    loaded,       \* the value the thread's has_openat2_cached call loaded
    res,          \* the local `res` of the thread's has_openat2_cached call
    returned,     \* for each probe function, the booleans it has returned
    probes,       \* probe syscalls issued from inside has_openat2_cached
    how,          \* the caller's OpenHow structure
    howOp,        \* the last operation applied to `how`
    howArg        \* the inputs of that operation

vars == <<kernel, HAS_OPENAT2, fds, held, pc, op, args, sys, nsys, sysret,
          errno, ret, loaded, res, returned, probes, how, howOp, howArg>>

threadVars == <<HAS_OPENAT2, fds, held, pc, op, args, sys, nsys, sysret,
                errno, ret, loaded, res, returned, probes>>

howVars == <<how, howOp, howArg>>

----------------------------------------------------------------------------
(* Bounds *)

NumThreads == 2
FdLimit == 5

Threads == 1..NumThreads
Caller == 1

----------------------------------------------------------------------------
(* Program constants *)

SYS_OPENAT2 == 437
AT_FDCWD == -100
SizeOfOpenHow == 24

\* libc O_* flags, as bit positions
O_RDONLY    == {}
O_WRONLY    == {0}
O_RDWR      == {1}
O_CREAT     == {6}
O_EXCL      == {7}
O_NOCTTY    == {8}
O_TRUNC     == {9}
O_APPEND    == {10}
O_NONBLOCK  == {11}
O_DSYNC     == {12}
O_ASYNC     == {13}
O_DIRECT    == {14}
O_LARGEFILE == {}
O_DIRECTORY == {16}
O_NOFOLLOW  == {17}
O_NOATIME   == {18}
O_CLOEXEC   == {19}
O_SYNC      == {12, 20}
O_PATH      == {21}
O_TMPFILE   == {16, 22}

\* ResolveFlags
NO_XDEV       == {0}
NO_MAGICLINKS == {1}
NO_SYMLINKS   == {2}
BENEATH       == {3}
IN_ROOT       == {4}
CACHED        == {5}
ResolveFlags_empty == {}
ResolveFlags_all ==
    NO_XDEV \cup NO_MAGICLINKS \cup NO_SYMLINKS \cup BENEATH \cup IN_ROOT \cup CACHED

----------------------------------------------------------------------------
(* OpenHow *)

\* `x as u64` for x: i32 sign-extends: a set bit 31 fills bits 32..63.
I32AsU64(x) == IF 31 \in x THEN x \cup (32..63) ELSE x

\* `x as u64` for x: u32 zero-extends.
U32AsU64(x) == x

OpenHow_new(flags, mode) ==
    [flags |-> I32AsU64(flags), mode |-> U32AsU64(mode), resolve |-> ResolveFlags_empty]

OPathMask == I32AsU64(O_PATH \cup O_DIRECTORY \cup O_NOFOLLOW \cup O_CLOEXEC)

ValidFlagsMask ==
    I32AsU64(O_RDONLY \cup O_WRONLY \cup O_RDWR \cup O_APPEND \cup O_ASYNC
             \cup O_CLOEXEC \cup O_CREAT \cup O_DIRECT \cup O_DIRECTORY
             \cup O_DSYNC \cup O_EXCL \cup O_LARGEFILE \cup O_NOATIME
             \cup O_NOCTTY \cup O_NOFOLLOW \cup O_NONBLOCK \cup O_PATH
             \cup O_SYNC \cup O_TMPFILE \cup O_TRUNC)

truncate_flags_mode_anybit(h) ==
    IF (h.flags \cap I32AsU64(O_PATH)) # {}
    THEN [h EXCEPT !.flags = h.flags \cap OPathMask, !.mode = {}]
    ELSE LET f == h.flags \cap ValidFlagsMask
         IN  IF (f \cap I32AsU64(O_CREAT)) = {} /\ (f \cap I32AsU64(O_TMPFILE)) = {}
             THEN [h EXCEPT !.flags = f, !.mode = {}]
             ELSE [h EXCEPT !.flags = f]

truncate_flags_mode(h) ==
    IF (h.flags \cap I32AsU64(O_PATH)) = I32AsU64(O_PATH)
    THEN [h EXCEPT !.flags = h.flags \cap OPathMask, !.mode = {}]
    ELSE LET f == h.flags \cap ValidFlagsMask
         IN  IF (f \cap I32AsU64(O_CREAT)) # I32AsU64(O_CREAT)
                /\ (f \cap I32AsU64(O_TMPFILE)) # I32AsU64(O_TMPFILE)
             THEN [h EXCEPT !.flags = f, !.mode = {}]
             ELSE [h EXCEPT !.flags = f]

----------------------------------------------------------------------------
(* Values crossing the syscall boundary *)

NullPtr == [null |-> TRUE]
Ptr(v) == [null |-> FALSE, val |-> v]

NoSys == [nr |-> 0]
SysCall(dirfd, path, h, size) ==
    [nr |-> SYS_OPENAT2, dirfd |-> dirfd, path |-> path, how |-> h, size |-> size]

Failure(e) == [ret |-> -1, errno |-> e]
Success(fd) == [ret |-> fd, errno |-> "unchanged"]

\* io::Result<RawFd> and bool return values
RetNone == [tag |-> "None"]
RetBool(b) == [tag |-> "Bool", val |-> b]
Ok(fd) == [tag |-> "Ok", fd |-> fd]
Err(e) == [tag |-> "Err", raw_os_error |-> e]
ErrNul == [tag |-> "Err", kind |-> "InvalidInput"]

None == [some |-> FALSE]
Some(fd) == [some |-> TRUE, fd |-> fd]

NoArgs == [none |-> TRUE]
CallArgs(dirfd, path, h) == [dirfd |-> dirfd, path |-> path, how |-> h]
HowArg(h) == [how |-> h]

----------------------------------------------------------------------------
(* The kernel side of the openat2(2) syscall, as the probes and wrappers   *)
(* rely on it.                                                             *)

KernelKinds == {"pre_5_6", "seccomp", "linux_5_6", "linux_5_12", "anomalous"}

\* Bits of how.flags the syscall accepts; O_LARGEFILE is bit 15 for the kernel.
KernelValidOpenFlags == (0..1) \cup (6..22)
\* Permission bits a creating open accepts in how.mode (07777).
KernelModeBits == 0..11
KernelWillCreate(h) == (h.flags \cap {6, 22}) # {}

\* EINVAL because how.flags or how.mode holds a value the syscall rejects.
KernelFlagsModeInvalid(h) ==
    \/ h.flags \ KernelValidOpenFlags # {}
    \/ KernelWillCreate(h) /\ h.mode \ KernelModeBits # {}
    \/ ~KernelWillCreate(h) /\ h.mode # {}

\* EINVAL for flag combinations that open()/openat() reject as well.
KernelFlagComboInvalid(h) ==
    \/ 22 \in h.flags /\ (h.flags \cap {6, 16, 22}) # {16, 22}
    \/ 22 \in h.flags /\ (h.flags \cap {0, 1}) = {}
    \/ 21 \in h.flags /\ h.flags \ {16, 17, 19, 21} # {}

KernelResolveBits(k) == IF k = "linux_5_6" THEN 0..4 ELSE 0..5

KernelResolveInvalid(k, h) ==
    \/ h.resolve \ KernelResolveBits(k) # {}
    \/ {3, 4} \subseteq h.resolve

KernelHowInvalid(k, h) ==
    KernelFlagsModeInvalid(h) \/ KernelFlagComboInvalid(h) \/ KernelResolveInvalid(k, h)

\* A new descriptor is the lowest free one; the table holds FdLimit of them.
FreeFds(open) == (0..(FdLimit - 1)) \ open
LowestFree(open) == CHOOSE fd \in FreeFds(open) : \A g \in FreeFds(open) : fd <= g
KernelOpen(open) ==
    IF FreeFds(open) = {} THEN Failure("EMFILE") ELSE Success(LowestFree(open))

\* What path resolution can answer for a well-formed request.
KernelLookup(call, open) ==
    {KernelOpen(open), Failure("ENOENT")}
        \cup (IF (call.how.val.resolve \cap {0, 3}) # {} THEN {Failure("EXDEV")} ELSE {})
        \cup (IF 5 \in call.how.val.resolve THEN {Failure("EAGAIN")} ELSE {})

\* The outcomes the syscall can have: Linux checks the request size, copies and
\* validates the request, copies the path, then resolves it.
KernelOutcomes(k, call, open) ==
    CASE k = "pre_5_6" -> {Failure("ENOSYS")}
      [] k = "seccomp" -> {Failure("EPERM")}
      [] OTHER ->
            IF call.size < SizeOfOpenHow THEN {Failure("EINVAL")}
            ELSE IF call.how.null
            THEN (IF k = "anomalous" THEN {KernelOpen(open)} ELSE {Failure("EFAULT")})
            ELSE IF KernelHowInvalid(k, call.how.val) THEN {Failure("EINVAL")}
            ELSE IF call.path.null
            THEN (IF k = "anomalous" THEN {KernelOpen(open)} ELSE {Failure("EFAULT")})
            ELSE IF call.path.val = <<>>
            THEN (IF k = "anomalous" THEN {KernelOpen(open)} ELSE {Failure("ENOENT")})
            ELSE IF call.dirfd # AT_FDCWD /\ call.dirfd \notin open
            THEN {Failure("EBADF")}
            ELSE KernelLookup(call, open)

----------------------------------------------------------------------------
(* The pure parts of the wrappers and probes *)

\* dirfd.unwrap_or(libc::AT_FDCWD)
dirfd_unwrap_or(dirfd) == IF dirfd.some THEN dirfd.fd ELSE AT_FDCWD

\* CString::new(bytes): an interior NUL byte is an error.
CString_new_ok(path) == \A i \in 1..Len(path) : path[i] # 0

\* if res < 0 { Err(io::Error::last_os_error()) } else { Ok(res as RawFd) };
\* the syscall returns -1 or a descriptor, which fits a RawFd.
openat2_cstr_result_einval(r, e) == IF r < 0 THEN Err("EINVAL") ELSE Ok(r)
openat2_cstr_result(r, e) == IF r < 0 THEN Err(e) ELSE Ok(r)

\* -1 => errno == EFAULT, fd => { close(fd); false }
has_openat2_match_any(r, e) == r = -1
has_openat2_match(r, e) == IF r = -1 THEN e = "EFAULT" ELSE FALSE

\* -1 => matches!(errno, ENOENT), fd => { close(fd); false }
supports_open_how_match_not_einval(r, e) == IF r = -1 THEN e # "EINVAL" ELSE FALSE
supports_open_how_match(r, e) == IF r = -1 THEN e = "ENOENT" ELSE FALSE

\* match HAS_OPENAT2.load(..) { 0 => false, 1 => true, _ => probe }
cached_is_hit_one_only(v) == v = 1
cached_is_hit(v) == v \in {0, 1}
cached_hit_value_swapped(v) == v = 0
cached_hit_value(v) == v = 1

\* res as u8
bool_as_u8_inverted(b) == IF b THEN 0 ELSE 1
bool_as_u8(b) == IF b THEN 1 ELSE 0

\* libc::close(fd)
libc_close_noop(open, fd) == open
libc_close(open, fd) == open \ {fd}

ProbeCall == SysCall(AT_FDCWD, NullPtr, NullPtr, SizeOfOpenHow)
HowProbeCall(h) == SysCall(AT_FDCWD, Ptr(<<>>), Ptr(h), SizeOfOpenHow)

----------------------------------------------------------------------------
(* Steps of a thread *)

\* libc::syscall(SYS_OPENAT2, ...): -1 and errno, or a new descriptor.
\* `before` is the number of syscalls the call has issued so far.
Syscall(t, call, out, before) ==
    /\ out \in KernelOutcomes(kernel, call, fds)
    /\ sys' = [sys EXCEPT ![t] = call]
    /\ nsys' = [nsys EXCEPT ![t] = before + 1]
    /\ sysret' = [sysret EXCEPT ![t] = out.ret]
    /\ errno' = [errno EXCEPT ![t] = IF out.ret < 0 THEN out.errno ELSE @]
    /\ fds' = IF out.ret >= 0 THEN fds \cup {out.ret} ELSE fds

Return(t, f, v) ==
    /\ pc' = [pc EXCEPT ![t] = "idle"]
    /\ ret' = [ret EXCEPT ![t] = v]
    /\ returned' = IF f \in DOMAIN returned
                   THEN [returned EXCEPT ![f] = @ \cup {v.val}]
                   ELSE returned

\* A call begins: its locals are fresh.
CallBegins(t, f, a) ==
    /\ pc[t] = "idle"
    /\ op' = [op EXCEPT ![t] = f]
    /\ args' = [args EXCEPT ![t] = a]
    /\ res' = [res EXCEPT ![t] = FALSE]
    /\ loaded' = [loaded EXCEPT ![t] = IF f = "has_openat2_cached" THEN HAS_OPENAT2 ELSE 2]

\* has_openat2(), called directly: the probe syscall and the match on it.
HasOpenat2(t) ==
    /\ CallBegins(t, "has_openat2", NoArgs)
    /\ \E out \in KernelOutcomes(kernel, ProbeCall, fds) :
          /\ Syscall(t, ProbeCall, out, 0)
          /\ IF out.ret = -1
             THEN Return(t, "has_openat2", RetBool(has_openat2_match(out.ret, errno'[t])))
             ELSE /\ pc' = [pc EXCEPT ![t] = "close"]
                  /\ UNCHANGED <<ret, returned>>
    /\ UNCHANGED <<kernel, HAS_OPENAT2, held, probes, howVars>>

\* has_openat2_cached(): the load of HAS_OPENAT2 and the match on it.
HasOpenat2Cached(t) ==
    /\ CallBegins(t, "has_openat2_cached", NoArgs)
    /\ sys' = [sys EXCEPT ![t] = NoSys]
    /\ nsys' = [nsys EXCEPT ![t] = 0]
    /\ IF cached_is_hit(HAS_OPENAT2)
       THEN Return(t, "has_openat2_cached", RetBool(cached_hit_value(HAS_OPENAT2)))
       ELSE /\ pc' = [pc EXCEPT ![t] = "probe"]
            /\ UNCHANGED <<ret, returned>>
    /\ UNCHANGED <<kernel, HAS_OPENAT2, fds, held, sysret, errno, probes, howVars>>

\* let res = has_openat2(), inside has_openat2_cached().
CachedProbe(t) ==
    /\ pc[t] = "probe"
    /\ \E out \in KernelOutcomes(kernel, ProbeCall, fds) :
          /\ Syscall(t, ProbeCall, out, nsys[t])
          /\ IF out.ret = -1
             THEN /\ res' = [res EXCEPT ![t] = has_openat2_match(out.ret, errno'[t])]
                  /\ pc' = [pc EXCEPT ![t] = "store"]
             ELSE /\ pc' = [pc EXCEPT ![t] = "close"]
                  /\ UNCHANGED res
    /\ probes' = IF probes > NumThreads THEN probes ELSE probes + 1
    /\ UNCHANGED <<kernel, HAS_OPENAT2, held, op, args, ret, loaded, returned, howVars>>

\* The `fd =>` arm of has_openat2() and supports_open_how(): close(fd); false.
ProbeClose(t) ==
    /\ pc[t] = "close"
    /\ fds' = libc_close(fds, sysret[t])
    /\ IF op[t] = "has_openat2_cached"
       THEN /\ res' = [res EXCEPT ![t] = has_openat2_match(sysret[t], errno[t])]
            /\ pc' = [pc EXCEPT ![t] = "store"]
            /\ UNCHANGED <<ret, returned>>
       ELSE /\ Return(t, op[t],
                      RetBool(IF op[t] = "has_openat2"
                              THEN has_openat2_match(sysret[t], errno[t])
                              ELSE supports_open_how_match(sysret[t], errno[t])))
            /\ UNCHANGED res
    /\ UNCHANGED <<kernel, HAS_OPENAT2, held, op, args, sys, nsys, sysret, errno,
                   loaded, probes, howVars>>

\* HAS_OPENAT2.store(res as u8, Relaxed); res
CachedStore(t) ==
    /\ pc[t] = "store"
    /\ HAS_OPENAT2' = bool_as_u8(res[t])
    /\ Return(t, "has_openat2_cached", RetBool(res[t]))
    /\ UNCHANGED <<kernel, fds, held, op, args, sys, nsys, sysret, errno, loaded, res,
                   probes, howVars>>

\* supports_open_how(how): the probe syscall and the match on it.
SupportsOpenHow(t, h) ==
    /\ CallBegins(t, "supports_open_how", HowArg(h))
    /\ \E out \in KernelOutcomes(kernel, HowProbeCall(h), fds) :
          /\ Syscall(t, HowProbeCall(h), out, 0)
          /\ IF out.ret = -1
             THEN Return(t, "supports_open_how", RetBool(supports_open_how_match(out.ret, errno'[t])))
             ELSE /\ pc' = [pc EXCEPT ![t] = "close"]
                  /\ UNCHANGED <<ret, returned>>
    /\ UNCHANGED <<kernel, HAS_OPENAT2, held, probes, howVars>>

\* openat2_cstr(dirfd, path, how)
Openat2Cstr(t, dirfd, cpath, h) ==
    /\ CallBegins(t, "openat2_cstr", CallArgs(dirfd, cpath, h))
    /\ CString_new_ok(cpath)
    /\ LET call == SysCall(dirfd_unwrap_or(dirfd), Ptr(cpath), Ptr(h), SizeOfOpenHow)
       IN  \E out \in KernelOutcomes(kernel, call, fds) :
              /\ Syscall(t, call, out, 0)
              /\ Return(t, "openat2_cstr", openat2_cstr_result(out.ret, errno'[t]))
              /\ held' = IF out.ret < 0 THEN held ELSE held \cup {out.ret}
    /\ UNCHANGED <<kernel, HAS_OPENAT2, probes, howVars>>

\* openat2(dirfd, path, how): CString::new(path)?, then openat2_cstr.
Openat2(t, dirfd, path, h) ==
    /\ CallBegins(t, "openat2", CallArgs(dirfd, path, h))
    /\ IF CString_new_ok(path)
       THEN LET call == SysCall(dirfd_unwrap_or(dirfd), Ptr(path), Ptr(h), SizeOfOpenHow)
            IN  \E out \in KernelOutcomes(kernel, call, fds) :
                   /\ Syscall(t, call, out, 0)
                   /\ Return(t, "openat2", openat2_cstr_result(out.ret, errno'[t]))
                   /\ held' = IF out.ret < 0 THEN held ELSE held \cup {out.ret}
       ELSE /\ Return(t, "openat2", ErrNul)
            /\ sys' = [sys EXCEPT ![t] = NoSys]
            /\ nsys' = [nsys EXCEPT ![t] = 0]
            /\ UNCHANGED <<sysret, errno, fds, held>>
    /\ UNCHANGED <<kernel, HAS_OPENAT2, probes, howVars>>

\* The caller closes a descriptor openat2 gave it.
CallerClose(t, fd) ==
    /\ pc[t] = "idle"
    /\ fd \in held
    /\ fds' = libc_close(fds, fd)
    /\ held' = held \ {fd}
    /\ UNCHANGED <<kernel, HAS_OPENAT2, pc, op, args, sys, nsys, sysret, errno, ret,
                   loaded, res, returned, probes, howVars>>

----------------------------------------------------------------------------
(* Operations on the caller's OpenHow *)

\* The values the caller passes: every combination of the bits below, and the
\* flag sets of the crate's own tests.
I32FlagBits == {0, 6, 16, 21, 22, 23, 31}
TestFlags ==
    { O_WRONLY \cup O_TRUNC \cup O_SYNC \cup O_CLOEXEC,
      O_PATH \cup O_WRONLY \cup O_CLOEXEC,
      O_WRONLY \cup O_CREAT \cup O_TRUNC \cup O_CLOEXEC,
      O_WRONLY \cup O_TMPFILE \cup O_CLOEXEC }
I32Flags == (SUBSET I32FlagBits) \cup TestFlags
U64Flags == {f \cup g : f \in SUBSET I32FlagBits, g \in {{}, {40}}} \cup TestFlags
Mode666 == {1, 2, 4, 5, 7, 8}
U32Modes == {{}, Mode666, {12}, Mode666 \cup {12}}
U64Modes == U32Modes \cup {{40}}
ResolveChoices == {BENEATH, CACHED}

\* let mut how = OpenHow::new(flags, mode), the arguments being in howArg
OpenHowNew ==
    /\ howOp = "none"
    /\ how' = OpenHow_new(howArg.flags, howArg.mode)
    /\ howOp' = "new"
    /\ UNCHANGED <<howArg, kernel, threadVars>>

\* how.flags = v
SetFlags(v) ==
    /\ howOp # "none"
    /\ how' = [how EXCEPT !.flags = v]
    /\ howOp' = "set_flags"
    /\ howArg' = NoArgs
    /\ UNCHANGED <<kernel, threadVars>>

\* how.mode = v
SetMode(v) ==
    /\ howOp # "none"
    /\ how' = [how EXCEPT !.mode = v]
    /\ howOp' = "set_mode"
    /\ howArg' = NoArgs
    /\ UNCHANGED <<kernel, threadVars>>

\* how.resolve |= r
OrResolve(r) ==
    /\ howOp # "none"
    /\ how' = [how EXCEPT !.resolve = @ \cup r]
    /\ howOp' = "or_resolve"
    /\ howArg' = NoArgs
    /\ UNCHANGED <<kernel, threadVars>>

\* how.truncate_flags_mode()
TruncateFlagsMode ==
    /\ howOp # "none"
    /\ how' = truncate_flags_mode(how)
    /\ howOp' = "truncate_flags_mode"
    /\ howArg' = how
    /\ UNCHANGED <<kernel, threadVars>>

----------------------------------------------------------------------------
(* Specifications *)

InitProcess ==
    /\ HAS_OPENAT2 = 2
    /\ fds = {0, 1, 2}
    /\ held = {}
    /\ pc = [t \in Threads |-> "idle"]
    /\ op = [t \in Threads |-> "none"]
    /\ args = [t \in Threads |-> NoArgs]
    /\ sys = [t \in Threads |-> NoSys]
    /\ nsys = [t \in Threads |-> 0]
    /\ sysret = [t \in Threads |-> 0]
    /\ errno = [t \in Threads |-> "none"]
    /\ ret = [t \in Threads |-> RetNone]
    /\ loaded = [t \in Threads |-> 2]
    /\ res = [t \in Threads |-> FALSE]
    /\ returned = [f \in {"has_openat2", "has_openat2_cached"} |-> {}]
    /\ probes = 0

Init ==
    /\ kernel \in KernelKinds
    /\ InitProcess
    /\ how = OpenHow_new(O_RDONLY, {})
    /\ howOp = "new"
    /\ howArg = [flags |-> O_RDONLY, mode |-> {}]

\* Threads of one process probing concurrently.
Next ==
    \E t \in Threads :
        \/ HasOpenat2(t)
        \/ HasOpenat2Cached(t)
        \/ CachedProbe(t)
        \/ ProbeClose(t)
        \/ CachedStore(t)
        \/ SupportsOpenHow(t, OpenHow_new(O_RDONLY, {}))

Spec == Init /\ [][Next]_vars

\* One caller probing and opening paths, as the crate's test does.
DirFds == {None, Some(3)}
Paths == {<<46>>, <<47>>, <<46, 0, 78>>, <<>>}
OpenedHows ==
    { OpenHow_new(O_RDONLY, {}),
      [OpenHow_new(O_RDONLY, {}) EXCEPT !.resolve = BENEATH],
      [OpenHow_new(O_RDONLY, {}) EXCEPT !.resolve = CACHED],
      OpenHow_new(O_WRONLY \cup O_CREAT, Mode666 \cup {12}) }
ProbedHows ==
    OpenedHows \cup {OpenHow_new({23}, {}), OpenHow_new(O_RDONLY, Mode666)}

NextOpen ==
    \/ \E dirfd \in DirFds, path \in Paths, h \in OpenedHows :
          Openat2(Caller, dirfd, path, h)
    \/ \E dirfd \in DirFds, path \in Paths, h \in OpenedHows :
          Openat2Cstr(Caller, dirfd, path, h)
    \/ \E fd \in held : CallerClose(Caller, fd)
    \/ HasOpenat2(Caller)
    \/ \E h \in ProbedHows : SupportsOpenHow(Caller, h)
    \/ ProbeClose(Caller)

SpecOpen == Init /\ [][NextOpen]_vars

\* One caller building and normalising a request.
InitHow ==
    /\ kernel = "linux_5_12"
    /\ InitProcess
    /\ how = [flags |-> {}, mode |-> {}, resolve |-> {}]
    /\ howOp = "none"
    /\ howArg \in [flags : I32Flags, mode : U32Modes]

NextHow ==
    \/ OpenHowNew
    \/ \E v \in U64Flags : SetFlags(v)
    \/ \E v \in U64Modes : SetMode(v)
    \/ \E r \in ResolveChoices : OrResolve(r)
    \/ TruncateFlagsMode

SpecHow == InitHow /\ [][NextHow]_vars

----------------------------------------------------------------------------
(* Properties *)

Completed(t, f) == op[t] = f /\ pc[t] = "idle"
CachedReturns == returned["has_openat2_cached"]
UncachedReturns == returned["has_openat2"]

\* C1: the cache starts unknown (2); once it holds a determined value no step
\* changes it; and every value has_openat2_cached has returned, to a racing
\* first caller or a later one, is the single value the cache holds.
C1_CacheSettlesOnce ==
    /\ HAS_OPENAT2 = 2
    /\ [](/\ HAS_OPENAT2 \in {0, 1, 2}
          /\ CachedReturns # {} =>
                /\ HAS_OPENAT2 # 2
                /\ CachedReturns = {HAS_OPENAT2 = 1})
    /\ [][HAS_OPENAT2 # 2 => HAS_OPENAT2' = HAS_OPENAT2]_vars

\* Two callers raced on first use, both probed and both stored.
C1_Witness ==
    /\ \A t \in {1, 2} : Completed(t, "has_openat2_cached") /\ nsys[t] = 1
    /\ HAS_OPENAT2 = 1
    /\ CachedReturns = {TRUE}

\* C2: within one process every call of has_openat2_cached, first or repeated,
\* returns the boolean that has_openat2 returns.
C2_CachedEqualsUncached ==
    Cardinality(CachedReturns \cup UncachedReturns) <= 1

\* has_openat2 has returned, and a repeated has_openat2_cached call was
\* answered from the cache.
C2_Witness ==
    /\ UncachedReturns # {}
    /\ \E t \in Threads :
          /\ Completed(t, "has_openat2_cached")
          /\ nsys[t] = 0
          /\ ret[t] = RetBool(FALSE)

\* C4: has_openat2 issues one syscall (AT_FDCWD, null path, null request, the
\* request size) and returns true exactly when it returned a negative value
\* with errno EFAULT.
C4_HasOpenat2IffEfault ==
    \A t \in Threads :
        Completed(t, "has_openat2") =>
            /\ nsys[t] = 1
            /\ sys[t] = [nr |-> 437, dirfd |-> -100, path |-> [null |-> TRUE],
                         how |-> [null |-> TRUE], size |-> 24]
            /\ ret[t] = RetBool(sysret[t] < 0 /\ errno[t] = "EFAULT")

C4_Witness ==
    \E t \in Threads :
        /\ Completed(t, "has_openat2")
        /\ ret[t] = RetBool(TRUE)
        /\ \E u \in Threads : Completed(u, "supports_open_how") /\ errno[u] = "ENOENT"

\* C9: a descriptor a probe syscall produced is open only while that probe has
\* not yet returned; such a probe returns false; the probes close nothing else.
C9_ProbesLeakNoDescriptor ==
    /\ {0, 1, 2} \cup held \subseteq fds
    /\ \A fd \in fds \ ({0, 1, 2} \cup held) :
          \E t \in Threads : pc[t] \notin {"idle", "store"} /\ nsys[t] > 0 /\ sysret[t] = fd
    /\ \A t \in Threads : pc[t] = "close" => sysret[t] \in fds
    /\ \A t \in Threads :
          /\ op[t] \in {"has_openat2", "has_openat2_cached", "supports_open_how"}
          /\ nsys[t] > 0 /\ sysret[t] >= 0
          => /\ pc[t] = "store" => res[t] = FALSE
             /\ pc[t] = "idle" => ret[t] = RetBool(FALSE)

\* Each kind of probe got a descriptor and every one of them is closed again.
C9_Witness ==
    /\ fds = {0, 1, 2}
    /\ \E t \in Threads :
          Completed(t, "supports_open_how") /\ nsys[t] > 0 /\ sysret[t] >= 0
    /\ \E t \in Threads :
          Completed(t, "has_openat2_cached") /\ nsys[t] > 0 /\ sysret[t] >= 0

\* C10: a has_openat2_cached call probes at most once, and only if it loaded
\* `unknown`; N threads issue at most N probes through it; and all pending
\* stores carry the value already stored, if any.
C10_ProbeOnlyWhileUnknown ==
    /\ \A t \in Threads :
          op[t] = "has_openat2_cached" =>
              /\ nsys[t] <= 1
              /\ nsys[t] = 1 => loaded[t] = 2
              /\ loaded[t] # 2 => nsys[t] = 0 /\ pc[t] = "idle"
    /\ probes <= NumThreads
    /\ \A t, u \in Threads :
          pc[t] = "store" /\ pc[u] = "store" => res[t] = res[u]
    /\ \A t \in Threads :
          pc[t] = "store" /\ HAS_OPENAT2 # 2 => res[t] = (HAS_OPENAT2 = 1)

\* Every thread probed once, and a later call was answered without a syscall.
C10_Witness ==
    /\ probes = NumThreads
    /\ \E t \in Threads :
          Completed(t, "has_openat2_cached") /\ loaded[t] = 0 /\ nsys[t] = 0

\* C3: openat2_cstr, and openat2 once its path is converted, issue the syscall
\* exactly once with dirfd None as AT_FDCWD, the path, the request and its
\* size; a negative return yields Err with the errno that syscall set, a
\* non-negative one yields Ok with that value.  A path with an interior NUL
\* fails before any syscall.
C3_SyscallResultVerbatim ==
    \A t \in Threads :
        Completed(t, "openat2") \/ Completed(t, "openat2_cstr") =>
            IF \E i \in 1..Len(args[t].path) : args[t].path[i] = 0
            THEN nsys[t] = 0 /\ ret[t] = [tag |-> "Err", kind |-> "InvalidInput"]
            ELSE /\ nsys[t] = 1
                 /\ sys[t] = [nr |-> 437,
                              dirfd |-> IF args[t].dirfd.some THEN args[t].dirfd.fd ELSE -100,
                              path |-> [null |-> FALSE, val |-> args[t].path],
                              how |-> [null |-> FALSE, val |-> args[t].how],
                              size |-> 24]
                 /\ sysret[t] < 0 => ret[t] = [tag |-> "Err", raw_os_error |-> errno[t]]
                 /\ sysret[t] >= 0 => ret[t] = [tag |-> "Ok", fd |-> sysret[t]]

\* openat2(None, "/", how with BENEATH) fails with EXDEV, as in the crate's test.
C3_Witness ==
    /\ Completed(Caller, "openat2")
    /\ args[Caller].dirfd = None
    /\ args[Caller].path = <<47>>
    /\ args[Caller].how.resolve = BENEATH
    /\ ret[Caller] = Err("EXDEV")

\* C5: supports_open_how(how) issues one syscall (AT_FDCWD, the empty path, the
\* request, its size) and returns true exactly when it failed with ENOENT;
\* so it is false whenever has_openat2 is false, and true for O_RDONLY with
\* or without BENEATH whenever has_openat2 is true.
C5_SupportsIffEnoent ==
    \A t \in Threads :
        Completed(t, "supports_open_how") =>
            /\ nsys[t] = 1
            /\ sys[t] = [nr |-> 437, dirfd |-> -100,
                         path |-> [null |-> FALSE, val |-> <<>>],
                         how |-> [null |-> FALSE, val |-> args[t].how],
                         size |-> 24]
            /\ ret[t] = RetBool(sysret[t] < 0 /\ errno[t] = "ENOENT")
            /\ FALSE \in UncachedReturns => ret[t] = RetBool(FALSE)
            /\ /\ TRUE \in UncachedReturns
               /\ args[t].how.flags = {} /\ args[t].how.mode = {}
               /\ args[t].how.resolve \in {{}, {3}}
               => ret[t] = RetBool(TRUE)

\* has_openat2 is true and the O_RDONLY request with BENEATH is supported.
C5_Witness ==
    /\ TRUE \in UncachedReturns
    /\ Completed(Caller, "supports_open_how")
    /\ args[Caller].how.resolve = BENEATH
    /\ ret[Caller] = RetBool(TRUE)

\* C6: after truncate_flags_mode the request passes the syscall's validation
\* of flags and mode: no flag bit it rejects, no mode it rejects for those flags.
C6_TruncatedPassesValidation ==
    howOp = "truncate_flags_mode" => ~KernelFlagsModeInvalid(how)

\* C7: truncate_flags_mode keeps, with O_PATH, the flags among O_PATH,
\* O_DIRECTORY, O_NOFOLLOW, O_CLOEXEC and zeroes mode; without O_PATH it keeps
\* the legacy open flags and zeroes mode unless O_CREAT or O_TMPFILE remains.
\* Flags made only of the bits the branch keeps come back unchanged, and
\* resolve is untouched.
C7_TruncateTable ==
    howOp = "truncate_flags_mode" =>
        LET legacy == (0..1) \cup (6..14) \cup (16..22)
            opath == {16, 17, 19, 21}
        IN  /\ how.resolve = howArg.resolve
            /\ IF 21 \in howArg.flags
               THEN /\ how.flags = howArg.flags \cap opath
                    /\ how.mode = {}
                    /\ howArg.flags \subseteq opath => how.flags = howArg.flags
               ELSE /\ how.flags = howArg.flags \cap legacy
                    /\ how.mode = IF 6 \in how.flags \/ {16, 22} \subseteq how.flags
                                  THEN howArg.mode
                                  ELSE {}
                    /\ howArg.flags \subseteq legacy => how.flags = howArg.flags

\* O_WRONLY | O_TMPFILE | O_CLOEXEC with mode 0o666 comes back unchanged.
C7_Witness ==
    /\ howOp = "truncate_flags_mode"
    /\ howArg.flags = {0, 16, 19, 22}
    /\ howArg.mode = {1, 2, 4, 5, 7, 8}
    /\ how.flags = howArg.flags
    /\ how.mode = howArg.mode

\* C8: OpenHow::new(flags, mode) holds the value of flags in the flags field
\* (an i32 with bit 31 set is negative, and no u64 has its value), the value
\* of mode in the mode field, and the empty ResolveFlags.
C8_NewRoundTrip ==
    howOp = "new" =>
        /\ 31 \notin howArg.flags /\ how.flags = howArg.flags
        /\ how.mode = howArg.mode
        /\ how.resolve = {}

====
